---- MODULE Spec2Model ----
(***************************************************************************)
(* Model of autoresume.py: the content-alignment pipeline (Profiler,       *)
(* Tagger, Scorer, Rewrite/extraction) and its helper safe_json_loads.     *)
(*                                                                         *)
(* Text is a sequence of tokens <<kind, payload>>.  Decoded JSON values    *)
(* are tagged pairs: <<"num", tenths>>, <<"str", s>>, <<"null", "null">>,  *)
(* <<"list", seq>>, <<"obj", seq of <<key, value>>>>.  Numbers are kept    *)
(* in tenths (25 is 2.5) so that int() has something to truncate.          *)
(***************************************************************************)
EXTENDS Integers, Sequences, FiniteSets, TLC

VARIABLES
    pc,              \* position of the running function / of main()
    raw_text,        \* the text handed to safe_json_loads / the oracle reply
    context_label,   \* safe_json_loads' context_label argument
    parsed,          \* what safe_json_loads returned
    log,             \* the [WARN] diagnostics printed so far (their labels)
    jd,              \* the clipboard text
    jd_signals,      \* main's jd_signals
    tagged_bullets,  \* main's tagged_bullets
    scored_bullets,  \* score_and_adjust_bullets' scored_bullets after the sort
    response_text,   \* the rewrite oracle's response.text
    clean_text,      \* what the extraction step returned
    clean_again,     \* the extraction step applied to clean_text
    trace,           \* the stages main() has gone through, in order
    oracle_calls,    \* number of generate_content calls issued
    inflight,        \* number of generate_content calls not yet returned
    file_reads,      \* number of times resume.tex was opened
    prompts,         \* number of "Compile PDF?" prompts shown
    replies          \* the oracle's replies received so far, in order

vars == <<pc, raw_text, context_label, parsed, log, jd, jd_signals,
          tagged_bullets, scored_bullets, response_text, clean_text,
          clean_again, trace, oracle_calls, inflight, file_reads, prompts,
          replies>>

-----------------------------------------------------------------------------
(* Bounds *)

MaxTextLen == 6

MaxUnits == 3

MaxPrompts == 2

\* Stands for the interpreter's recursion limit (1000 by default): deep
\* enough for every well-formed reply, shallower than the longest text.
RecursionLimit == 5

-----------------------------------------------------------------------------
(* JSON values *)

None == <<"null", "null">>

Num(tenths) == <<"num", tenths>>

Str(s) == <<"str", s>>

List(elems) == <<"list", elems>>

EmptyDict == <<"obj", <<>>>>

IsDict(v) == v[1] = "obj"

IsList(v) == v[1] = "list"

\* Python truthiness of a decoded value (the `not data` tests).
Truthy(v) ==
    CASE v[1] = "null" -> FALSE
      [] v[1] = "num"  -> v[2] # 0
      [] v[1] = "str"  -> v[2] # ""
      [] v[1] = "list" -> v[2] # <<>>
      [] v[1] = "obj"  -> v[2] # <<>>
      [] OTHER         -> TRUE

HasKey(d, k) == \E i \in 1..Len(d[2]) : d[2][i][1] = k

\* dict.get(k, default)
DictGet(d, k, default) ==
    IF HasKey(d, k)
    THEN d[2][CHOOSE i \in 1..Len(d[2]) : d[2][i][1] = k][2]
    ELSE default

\* d[k] = v : an existing key keeps its position, a new key goes last
DictSet(d, k, v) ==
    IF HasKey(d, k)
    THEN <<"obj", [i \in 1..Len(d[2]) |->
                     IF d[2][i][1] = k THEN <<k, v>> ELSE d[2][i]]>>
    ELSE <<"obj", Append(d[2], <<k, v>>)>>

\* dict.setdefault(k, default)
SetDefault(d, k, default) == IF HasKey(d, k) THEN d ELSE DictSet(d, k, default)

-----------------------------------------------------------------------------
(* Text tokens and json.loads *)

LBrace == <<"p", "{">>

RBrace == <<"p", "}">>

LBracket == <<"p", "[">>

RBracket == <<"p", "]">>

Newline == <<"ws", "nl">>

Space == <<"ws", "sp">>

Junk == <<"junk", "x">>

Key(k) == <<"key", k>>

IsWs(t) == t[1] = "ws"

\* json.loads rejects the text: a JSONDecodeError
ParseFail == [ok |-> FALSE, err |-> "JSONDecodeError", val |-> None, next |-> 0]

\* The decoder recursed past the interpreter's recursion limit: a
\* RecursionError, which is no JSONDecodeError.
ParseTooDeep == [ok |-> FALSE, err |-> "RecursionError", val |-> None, next |-> 0]

ParseOk(v, n) == [ok |-> TRUE, err |-> "", val |-> v, next |-> n]

RECURSIVE ParseValue(_, _, _), ParseElems(_, _, _, _), ParseMembers(_, _, _, _)

\* One JSON value starting at s[i], `depth` arrays and objects being open.
\* The decoder recurses once per array or object it enters.
ParseValue(s, i, depth) ==
    IF i > Len(s) THEN ParseFail
    ELSE LET t == s[i] IN
         CASE t[1] \in {"num", "str", "null"} -> ParseOk(t, i + 1)
           [] t \in {LBracket, LBrace} ->
                IF depth >= RecursionLimit THEN ParseTooDeep
                ELSE IF t = LBracket THEN ParseElems(s, i + 1, depth + 1, <<>>)
                ELSE ParseMembers(s, i + 1, depth + 1, EmptyDict)
           [] OTHER -> ParseFail

ParseElems(s, i, depth, acc) ==
    IF i > Len(s) THEN ParseFail
    ELSE IF s[i] = RBracket THEN ParseOk(List(acc), i + 1)
    ELSE LET r == ParseValue(s, i, depth) IN
         IF r.ok THEN ParseElems(s, r.next, depth, Append(acc, r.val)) ELSE r

ParseMembers(s, i, depth, acc) ==
    IF i > Len(s) THEN ParseFail
    ELSE IF s[i] = RBrace THEN ParseOk(acc, i + 1)
    ELSE IF s[i][1] # "key" THEN ParseFail
    ELSE LET r == ParseValue(s, i + 1, depth) IN
         IF r.ok THEN ParseMembers(s, r.next, depth, DictSet(acc, s[i][2], r.val))
         ELSE r

\* json.loads: whitespace between tokens is insignificant, the whole text
\* must be one value; err names the exception raised otherwise.
json_loads(s) ==
    LET body == SelectSeq(s, LAMBDA t : ~IsWs(t))
        r    == ParseValue(body, 1, 0)
    IN IF r.ok /\ r.next = Len(body) + 1 THEN [ok |-> TRUE, err |-> "", val |-> r.val]
       ELSE IF r.ok THEN [ok |-> FALSE, err |-> "JSONDecodeError", val |-> None]
       ELSE [ok |-> FALSE, err |-> r.err, val |-> None]

\* The spans i..j that the pattern  \{.*\}  can match: '.' matches a
\* newline only with re.DOTALL.
BraceSpans(s, dotall) ==
    {<<i, j>> \in (1..Len(s)) \X (1..Len(s)) :
        /\ i < j
        /\ s[i] = LBrace
        /\ s[j] = RBrace
        /\ dotall \/ \A k \in (i + 1)..(j - 1) : s[k] # Newline}

\* re.search: the leftmost start that matches, there the longest match
\* when the quantifier is greedy and the shortest when it is lazy.
ReSearch(spans, greedy) ==
    IF spans = {} THEN <<0, 0>>
    ELSE LET i  == CHOOSE a \in {sp[1] : sp \in spans} :
                       \A b \in {sp[1] : sp \in spans} : a <= b
             js == {sp[2] : sp \in {q \in spans : q[1] = i}}
             j  == IF greedy
                   THEN CHOOSE a \in js : \A b \in js : a >= b
                   ELSE CHOOSE a \in js : \A b \in js : a <= b
         IN <<i, j>>

\* re.search(r"\{.*\}", raw_text, re.DOTALL)
SearchBraces(s) == ReSearch(BraceSpans(s, TRUE), TRUE)

\* safe_json_loads: the value returned and whether the [WARN] line is
\* printed; raised when an exception other than JSONDecodeError escapes.
safe_json_loads(s) ==
    LET direct == json_loads(s) IN
    IF direct.ok THEN [val |-> direct.val, warn |-> FALSE, raised |-> FALSE]
    ELSE IF direct.err # "JSONDecodeError"
    THEN [val |-> None, warn |-> FALSE, raised |-> TRUE]
    ELSE LET m      == SearchBraces(s)
             inner  == json_loads(SubSeq(s, m[1], m[2]))
         IN IF m = <<0, 0>> THEN [val |-> None, warn |-> TRUE, raised |-> FALSE]
            ELSE IF inner.ok THEN [val |-> inner.val, warn |-> FALSE, raised |-> FALSE]
            ELSE IF inner.err # "JSONDecodeError"
            THEN [val |-> None, warn |-> FALSE, raised |-> TRUE]
            ELSE [val |-> None, warn |-> TRUE, raised |-> FALSE]

-----------------------------------------------------------------------------
(* Specification of safe_json_loads on every short text *)

ParseAlphabet == {LBrace, RBrace, LBracket, Num(10), Key("a"), Junk, Newline}

\* The texts of at most n tokens of an alphabet.
TextsUpTo(alphabet, n) == UNION {[1..k -> alphabet] : k \in 0..n}

Labels == {"JD signals", "bullet tagging"}

Idle ==
    /\ jd = <<>>
    /\ jd_signals = None
    /\ tagged_bullets = <<>>
    /\ scored_bullets = <<>>
    /\ response_text = <<>>
    /\ clean_text = <<>>
    /\ clean_again = <<>>
    /\ trace = <<>>
    /\ oracle_calls = 0
    /\ inflight = 0
    /\ file_reads = 0
    /\ prompts = 0
    /\ replies = <<>>

InitParse ==
    /\ pc = "safe_json_loads"
    /\ raw_text \in TextsUpTo(ParseAlphabet, MaxTextLen)
    /\ context_label \in Labels
    /\ parsed = None
    /\ log = <<>>
    /\ Idle

CallSafeJsonLoads ==
    /\ pc = "safe_json_loads"
    /\ LET r == safe_json_loads(raw_text) IN
         /\ parsed' = r.val
         /\ log' = IF r.warn THEN Append(log, context_label) ELSE log
         /\ pc' = IF r.raised THEN "raised" ELSE "returned"
    /\ UNCHANGED <<raw_text, context_label, jd, jd_signals, tagged_bullets,
                   scored_bullets, response_text, clean_text, clean_again,
                   trace, oracle_calls, inflight, file_reads, prompts, replies>>

NextParse == CallSafeJsonLoads

SpecParse == InitParse /\ [][NextParse]_vars

\* What the contract says the parser returns, stated without the regex:
\* positions of the first '{' and the last '}'.
FirstLBrace(s) ==
    IF \E i \in 1..Len(s) : s[i] = LBrace
    THEN CHOOSE i \in 1..Len(s) : s[i] = LBrace /\ \A k \in 1..(i - 1) : s[k] # LBrace
    ELSE 0

LastRBrace(s) ==
    IF \E i \in 1..Len(s) : s[i] = RBrace
    THEN CHOOSE i \in 1..Len(s) : s[i] = RBrace /\ \A k \in (i + 1)..Len(s) : s[k] # RBrace
    ELSE 0

BraceRegion(s) ==
    IF FirstLBrace(s) # 0 /\ FirstLBrace(s) < LastRBrace(s)
    THEN SubSeq(s, FirstLBrace(s), LastRBrace(s))
    ELSE <<>>

\* json.loads decodes the text.
Decodes(s) == json_loads(s).ok

\* What the contract says about a call that returned.
ParserContract ==
    IF Decodes(raw_text)
    THEN parsed = json_loads(raw_text).val /\ log = <<>>
    ELSE IF BraceRegion(raw_text) # <<>> /\ Decodes(BraceRegion(raw_text))
    THEN parsed = json_loads(BraceRegion(raw_text)).val /\ log = <<>>
    ELSE parsed = None /\ log = <<context_label>>

\* C6: for every text safe_json_loads returns without raising: the decoded
\* whole text when it decodes; otherwise the decoded region from the first
\* '{' to the last '}' when that region exists and decodes; otherwise None
\* with exactly one diagnostic carrying the context label.  No diagnostic
\* when a value was decoded.
C6_ParserContract ==
    pc # "safe_json_loads" => (pc = "returned" /\ ParserContract)

\* The part of C6 that holds: whenever safe_json_loads returns, it returns
\* what the contract says.
ParserContractWhenReturned == pc = "returned" => ParserContract

-----------------------------------------------------------------------------
(* The extraction step of score_and_adjust_bullets *)

\* \documentclass
BeginMarker == <<"tex", "\\documentclass">>

\* \end{document} is the two adjacent pieces  \end{docu  and  ment} : a
\* marker is several characters, so other text can stand between its pieces.
EndHead == <<"tex", "\\end{docu">>

EndTail == <<"tex", "ment}">>

\* Three backticks; followed by the word latex they are the fence ```latex
Fence == <<"tex", "fence">>

Latex == <<"tex", "latex">>

\* The spans i..j that  \\documentclass.*?\\end\{document\}  can match.
DocumentSpans(s, dotall) ==
    {<<i, j>> \in (1..Len(s)) \X (1..Len(s)) :
        /\ i + 1 < j
        /\ s[i] = BeginMarker
        /\ s[j - 1] = EndHead
        /\ s[j] = EndTail
        /\ dotall \/ \A k \in (i + 1)..(j - 2) : s[k] # Newline}

SearchDocumentLine(s) == ReSearch(DocumentSpans(s, FALSE), FALSE)

\* re.search(r"\\documentclass.*?\\end\{document\}", clean_text, re.DOTALL)
SearchDocument(s) == ReSearch(DocumentSpans(s, TRUE), FALSE)

RECURSIVE Replace(_, _)

\* str.replace(old, ""): every non-overlapping occurrence, left to right
Replace(s, old) ==
    IF Len(s) < Len(old) THEN s
    ELSE IF SubSeq(s, 1, Len(old)) = old
    THEN Replace(SubSeq(s, Len(old) + 1, Len(s)), old)
    ELSE <<Head(s)>> \o Replace(Tail(s), old)

RECURSIVE LStrip(_), RStrip(_)

LStrip(s) == IF s # <<>> /\ IsWs(Head(s)) THEN LStrip(Tail(s)) ELSE s

RStrip(s) ==
    IF s # <<>> /\ IsWs(s[Len(s)]) THEN RStrip(SubSeq(s, 1, Len(s) - 1)) ELSE s

\* str.strip()
Strip(s) == LStrip(RStrip(s))

\* Lines 304-311: keep the matched document if there is one, drop the
\* fences, strip.
Extraction(text) ==
    LET m    == SearchDocument(text)
        kept == IF m # <<0, 0>> THEN SubSeq(text, m[1], m[2]) ELSE text
    IN Strip(Replace(Replace(kept, <<Fence, Latex>>), <<Fence>>))

ReplyAlphabet == {BeginMarker, EndHead, EndTail, Fence, Latex, Newline}

InitExtract ==
    /\ pc = "extract"
    /\ response_text \in TextsUpTo(ReplyAlphabet, MaxTextLen)
    /\ clean_text = <<>>
    /\ clean_again = <<>>
    /\ raw_text = <<>>
    /\ context_label = ""
    /\ parsed = None
    /\ log = <<>>
    /\ jd = <<>>
    /\ jd_signals = None
    /\ tagged_bullets = <<>>
    /\ scored_bullets = <<>>
    /\ trace = <<>>
    /\ oracle_calls = 0
    /\ inflight = 0
    /\ file_reads = 0
    /\ prompts = 0
    /\ replies = <<>>

Extract ==
    /\ pc = "extract"
    /\ clean_text' = Extraction(response_text)
    /\ pc' = "extracted"
    /\ UNCHANGED <<raw_text, context_label, parsed, log, jd, jd_signals,
                   tagged_bullets, scored_bullets, response_text, clean_again,
                   trace, oracle_calls, inflight, file_reads, prompts, replies>>

\* The extraction step run on its own output.
ExtractAgain ==
    /\ pc = "extracted"
    /\ clean_again' = Extraction(clean_text)
    /\ pc' = "extracted_again"
    /\ UNCHANGED <<raw_text, context_label, parsed, log, jd, jd_signals,
                   tagged_bullets, scored_bullets, response_text, clean_text,
                   trace, oracle_calls, inflight, file_reads, prompts, replies>>

NextExtract == Extract \/ ExtractAgain

SpecExtract == InitExtract /\ [][NextExtract]_vars

BeginPositions(s) == {i \in 1..Len(s) : s[i] = BeginMarker}

EndPositions(s) == {j \in 2..Len(s) : s[j - 1] = EndHead /\ s[j] = EndTail}

\* Exactly one begin-marker, followed by exactly one end-marker.
OneDocument(s) ==
    /\ Cardinality(BeginPositions(s)) = 1
    /\ Cardinality(EndPositions(s)) = 1
    /\ \A i \in BeginPositions(s) : \A j \in EndPositions(s) : i < j - 1

\* The text from the begin-marker through the end-marker.
Delimited(s) ==
    SubSeq(s, CHOOSE i \in BeginPositions(s) : TRUE,
              CHOOSE j \in EndPositions(s) : TRUE)

RECURSIVE FenceFreeFrom(_, _)

FenceFreeFrom(s, i) ==
    IF i > Len(s) THEN <<>>
    ELSE IF s[i] = Fence \/ (s[i] = Latex /\ i > 1 /\ s[i - 1] = Fence)
    THEN FenceFreeFrom(s, i + 1)
    ELSE <<s[i]>> \o FenceFreeFrom(s, i + 1)

\* A text without its ``` and ```latex markers.
FenceFree(s) == FenceFreeFrom(s, 1)

-----------------------------------------------------------------------------
(* The scoring loop and the sort of score_and_adjust_bullets *)

\* The integer literals among the strings of the model.
IntLiteral(s) ==
    CASE s = "9" -> [ok |-> TRUE, val |-> 9]
      [] s = "2" -> [ok |-> TRUE, val |-> 2]
      [] OTHER   -> [ok |-> FALSE, val |-> 0]

RoundUp(tenths) == (tenths + 9) \div 10

\* int() of a number: toward zero
Truncate(tenths) ==
    IF tenths >= 0 THEN tenths \div 10 ELSE -((-tenths) \div 10)

\* int(x): a number is truncated toward zero, a string is parsed as an
\* integer literal (ValueError otherwise), anything else is a TypeError.
IntOf(v) ==
    CASE v[1] = "num" -> [ok |-> TRUE, val |-> Truncate(v[2])]
      [] v[1] = "str" -> IntLiteral(v[2])
      [] OTHER        -> [ok |-> FALSE, val |-> 0]

\* What iterating over a value yields; ok = FALSE is "not iterable".  The
\* characters of a string are no strings of the model: none is a weights key.
Items(v) ==
    CASE v[1] = "list" -> [ok |-> TRUE, val |-> v[2]]
      [] v[1] = "obj"  -> [ok |-> TRUE, val |-> [i \in 1..Len(v[2]) |-> Str(v[2][i][1])]]
      [] v[1] = "str"  -> [ok |-> TRUE, val |-> <<>>]
      [] OTHER         -> [ok |-> FALSE, val |-> <<>>]

Hashable(v) == v[1] \in {"num", "str", "null"}

\* weights.get(tag, 0): the keys of a decoded object are strings
WeightOf(weights, tag) ==
    IF tag[1] = "str" THEN DictGet(weights, tag[2], Num(0)) ELSE Num(0)

RECURSIVE SumWeights(_, _, _)

\* sum(int(weights.get(tag, 0)) for tag in tags), from the i-th tag on
SumWeights(weights, tags, i) ==
    IF i > Len(tags) THEN [ok |-> TRUE, val |-> 0]
    ELSE IF ~IsDict(weights) \/ ~Hashable(tags[i]) THEN [ok |-> FALSE, val |-> 0]
    ELSE LET w    == IntOf(WeightOf(weights, tags[i]))
             rest == SumWeights(weights, tags, i + 1)
         IN IF w.ok /\ rest.ok
            THEN [ok |-> TRUE, val |-> w.val + rest.val]
            ELSE [ok |-> FALSE, val |-> 0]

\* x or y
Or(x, y) == IF Truthy(x) THEN x ELSE y

\* Lines 209-217: one pass of the loop body; ok = FALSE when it raises.
ScoreBullet(weights, bullet) ==
    IF ~IsDict(bullet) THEN [ok |-> FALSE, val |-> <<>>]
    ELSE LET tags  == Or(DictGet(bullet, "tags", List(<<>>)), List(<<>>))
             items == Items(tags)
             score == SumWeights(weights, items.val, 1)
         IN IF items.ok /\ score.ok
            THEN [ok  |-> TRUE,
                  val |-> [bullet_text     |-> DictGet(bullet, "bullet_text", Str("")),
                           tags            |-> tags,
                           alignment_score |-> score.val]]
            ELSE [ok |-> FALSE, val |-> <<>>]

\* Where list.sort(key=alignment_score, reverse=True) puts a unit among the
\* units already in order: behind every unit whose score is not smaller.
InsertBehindTies(sorted, unit) ==
    LET ahead == {k \in 1..Len(sorted) :
                    sorted[k].alignment_score >= unit.alignment_score}
        n     == Cardinality(ahead)
    IN SubSeq(sorted, 1, n) \o <<unit>> \o SubSeq(sorted, n + 1, Len(sorted))

InsertBeforeTies(sorted, unit) ==
    LET ahead == {k \in 1..Len(sorted) :
                    sorted[k].alignment_score > unit.alignment_score}
        n     == Cardinality(ahead)
    IN SubSeq(sorted, 1, n) \o <<unit>> \o SubSeq(sorted, n + 1, Len(sorted))

\* Line 219 on one more unit.
SortInsert(sorted, unit) == InsertBehindTies(sorted, unit)

RECURSIVE SortDescending(_)

\* scored_bullets.sort(key=lambda x: x["alignment_score"], reverse=True)
SortDescending(units) ==
    IF units = <<>> THEN <<>>
    ELSE SortInsert(SortDescending(SubSeq(units, 1, Len(units) - 1)),
                    units[Len(units)])

\* jd_signals.get("signal_weights", {}) or {}
WeightsOf(signals) == Or(DictGet(signals, "signal_weights", EmptyDict), EmptyDict)

\* Lines 205-217: the units in input order; ok = FALSE when a pass raises.
ScoreLoop(signals, bullets) ==
    LET weights == WeightsOf(signals)
        each    == [k \in 1..Len(bullets) |-> ScoreBullet(weights, bullets[k])]
    IN [ok  |-> \A k \in 1..Len(bullets) : each[k].ok,
        val |-> [k \in 1..Len(bullets) |-> each[k].val]]

\* The tag lists the units of the scoring specification carry: none, known
\* clusters, a cluster without a weight, a label outside the taxonomy, a
\* repeated tag.
TagLists ==
    {<<>>, <<Str("backend")>>, <<Str("frontend")>>,
     <<Str("backend"), Str("frontend")>>, <<Str("data_ml")>>,
     <<Str("backend"), Str("golang")>>, <<Str("frontend"), Str("frontend")>>}

\* Stands for a key the record does not have.
Absent == <<"absent", "absent">>

\* A tagged unit as the Tagger's reply carries it.
Unit(text, tags) ==
    IF tags = Absent
    THEN <<"obj", <<<<"bullet_text", Str(text)>>>>>>
    ELSE <<"obj", <<<<"bullet_text", Str(text)>>, <<"tags", tags>>>>>>

UnitTexts == <<"b1", "b2", "b3", "b4", "b5">>

\* The tags of a unit: a list, null, or no tags key at all.
TagShapes == {List(t) : t \in TagLists} \cup {None, Absent}

\* Weights as the Profiler's reply carries them: whole numbers, and numbers
\* with a fraction (a JSON number need not be whole).
BackendWeights == {Num(90), Num(25)}

FrontendWeights == {Num(20), Num(25)}

WeightMaps ==
    {<<"obj", <<>>>>}
        \cup {<<"obj", <<<<"backend", b>>>>>> : b \in BackendWeights}
        \cup {<<"obj", <<<<"frontend", f>>>>>> : f \in FrontendWeights}
        \cup {<<"obj", <<<<"backend", b>>, <<"frontend", f>>>>>> :
                b \in BackendWeights, f \in FrontendWeights}

InitScore ==
    /\ pc = "score"
    /\ \E w \in WeightMaps : jd_signals = <<"obj", <<<<"signal_weights", w>>>>>>
    /\ \E n \in 0..MaxUnits : \E shapes \in [1..n -> TagShapes] :
         tagged_bullets = [k \in 1..n |-> Unit(UnitTexts[k], shapes[k])]
    /\ scored_bullets = <<>>
    /\ raw_text = <<>>
    /\ context_label = ""
    /\ parsed = None
    /\ log = <<>>
    /\ jd = <<>>
    /\ response_text = <<>>
    /\ clean_text = <<>>
    /\ clean_again = <<>>
    /\ trace = <<>>
    /\ oracle_calls = 0
    /\ inflight = 0
    /\ file_reads = 0
    /\ prompts = 0
    /\ replies = <<>>

\* Lines 205-219 on inputs that make no pass raise.
Score ==
    /\ pc = "score"
    /\ ScoreLoop(jd_signals, tagged_bullets).ok
    /\ scored_bullets' = SortDescending(ScoreLoop(jd_signals, tagged_bullets).val)
    /\ pc' = "scored"
    /\ UNCHANGED <<raw_text, context_label, parsed, log, jd, jd_signals,
                   tagged_bullets, response_text, clean_text, clean_again,
                   trace, oracle_calls, inflight, file_reads, prompts, replies>>

NextScore == Score

SpecScore == InitScore /\ [][NextScore]_vars

\* The weights mapping the Scorer reads.
Weights == WeightsOf(jd_signals)

\* The tags the Scorer read from the k-th input unit.
InputTags(k) ==
    LET t == DictGet(tagged_bullets[k], "tags", None) IN
    IF IsList(t) THEN t[2] ELSE <<>>

\* The sum over a unit's tags of f(weight), in tenths; a tag without an
\* entry in the weights counts 0.
SumOver(tags, f(_)) ==
    LET part[i \in 0..Len(tags)] ==
            IF i = 0 THEN 0
            ELSE part[i - 1] +
                 (IF HasKey(Weights, tags[i][2]) THEN f(DictGet(Weights, tags[i][2], None)[2])
                  ELSE 0)
    IN part[Len(tags)]

\* The input unit a scored unit was made from: bullet texts are distinct.
SourceOf(unit) ==
    CHOOSE k \in 1..Len(tagged_bullets) :
        DictGet(tagged_bullets[k], "bullet_text", None) = unit.bullet_text

Same(tenths) == tenths

\* A number without its fraction, in tenths.
Whole(tenths) ==
    IF tenths >= 0 THEN tenths - (tenths % 10) ELSE -((-tenths) - ((-tenths) % 10))

\* C1 as stated: every scored unit's alignment_score is the sum of
\* weights[tag] over the unit's tags, a tag without a weight and a unit
\* without tags contributing 0.
C1_ScoreIsSumOfWeights_Original ==
    pc = "scored" =>
        \A k \in 1..Len(scored_bullets) :
            10 * scored_bullets[k].alignment_score =
                SumOver(InputTags(SourceOf(scored_bullets[k])), Same)

\* C1 amended: every scored unit's alignment_score is the sum over the unit's
\* tags of the weight truncated toward zero to a whole number, a tag without
\* a weight and a unit without tags contributing 0.
C1_ScoreIsSumOfWholeWeights ==
    pc = "scored" =>
        \A k \in 1..Len(scored_bullets) :
            10 * scored_bullets[k].alignment_score =
                SumOver(InputTags(SourceOf(scored_bullets[k])), Whole)

\* A unit tagged with a weighted cluster and an unknown label was scored
\* under a weight with a fraction, next to a unit without tags.
C1_Witness ==
    /\ pc = "scored"
    /\ DictGet(Weights, "backend", None) = Num(25)
    /\ \E k \in 1..Len(scored_bullets) :
         /\ scored_bullets[k].tags = List(<<Str("backend"), Str("golang")>>)
         /\ scored_bullets[k].alignment_score = 2
    /\ \E k \in 1..Len(scored_bullets) :
         /\ scored_bullets[k].tags = List(<<>>)
         /\ scored_bullets[k].alignment_score = 0

\* The score the Scorer gives the k-th input unit, from the weights alone.
InputScore(k) == SumOver(InputTags(k), Whole) \div 10

\* C2: the ranked output is a permutation of the input units, in order of
\* non-increasing alignment_score, units of equal score in input order.
C2_StableRanking ==
    pc = "scored" =>
        /\ Len(scored_bullets) = Len(tagged_bullets)
        /\ \E p \in [1..Len(tagged_bullets) -> 1..Len(tagged_bullets)] :
             /\ \A a, b \in 1..Len(tagged_bullets) : a # b => p[a] # p[b]
             /\ \A a \in 1..Len(tagged_bullets) :
                  /\ scored_bullets[a].bullet_text =
                         DictGet(tagged_bullets[p[a]], "bullet_text", None)
                  /\ scored_bullets[a].alignment_score = InputScore(p[a])
             /\ \A a, b \in 1..Len(tagged_bullets) :
                  a < b =>
                      \/ InputScore(p[a]) > InputScore(p[b])
                      \/ InputScore(p[a]) = InputScore(p[b]) /\ p[a] < p[b]

\* Two units of equal score with a higher-scored unit between them in the
\* input were ranked: the higher one first, the equal ones in input order.
C2_Witness ==
    /\ pc = "scored"
    /\ Len(tagged_bullets) = 3
    /\ InputScore(1) = InputScore(3)
    /\ InputScore(2) > InputScore(1)
    /\ InputScore(1) > 0
    /\ scored_bullets[1].bullet_text = Str("b2")
    /\ scored_bullets[2].bullet_text = Str("b1")
    /\ scored_bullets[3].bullet_text = Str("b3")

-----------------------------------------------------------------------------
(* main() and the three oracle stages *)

\* The 12 cluster identifiers of lines 61-74 and 141-154.
Taxonomy ==
    {"backend", "frontend", "fullstack", "data_ml", "cloud_devops",
     "testing_quality", "performance_scalability", "security_reliability",
     "product_user_focus", "teamwork_communication", "learning_growth",
     "domain_industry"}

\* response.text of a reply that carries no text (None).
NoText == <<<<"none", "text">>>>

\* A reply that nests arrays past the recursion limit.
DeepText == [i \in 1..(RecursionLimit + 1) |-> LBracket]

ProfileFields == <<"signal_weights", "top_5_signals", "top_keywords", "domain_phrases">>

\* The text of each field of a well-formed Profiler reply.
FieldText(f) ==
    CASE f = "signal_weights" ->
            <<Key(f), LBrace, Key("backend"), Num(90), Key("frontend"), Num(25), RBrace>>
      [] f = "top_5_signals"  -> <<Key(f), LBracket, Str("backend"), RBracket>>
      [] f = "top_keywords"   -> <<Key(f), LBracket, Str("python"), Str("sql"), RBracket>>
      [] f = "domain_phrases" -> <<Key(f), LBracket, Str("K-12 schools"), RBracket>>

RECURSIVE FieldsText(_, _)

FieldsText(present, i) ==
    IF i > Len(ProfileFields) THEN <<>>
    ELSE (IF ProfileFields[i] \in present THEN FieldText(ProfileFields[i]) ELSE <<>>)
             \o FieldsText(present, i + 1)

\* A reply that is a record with exactly the fields in `present`.
RecordText(present) == <<LBrace>> \o FieldsText(present, 1) \o <<RBrace>>

\* What the oracle may answer the Profiler: every record that lacks some of
\* the four fields, a record with prose around it, a record with none of the
\* four keys, null fields, text that is no JSON, JSON that is no record, no
\* text at all.
ProfilerReplies ==
    {RecordText(present) : present \in SUBSET {"signal_weights", "top_5_signals",
                                               "top_keywords", "domain_phrases"}}
        \cup {<<Junk, Newline>> \o RecordText({"signal_weights"}) \o <<Newline, Junk>>,
              <<LBrace, Key("other"), Num(10), RBrace>>,
              <<LBrace, Key("top_5_signals"), None, RBrace>>,
              <<LBrace, Key("signal_weights"), LBrace, Key("backend"), Str("9"), RBrace,
                Key("domain_phrases"), None, RBrace>>,
              <<Junk, Junk>>,
              <<LBrace, Key("signal_weights")>>,
              <<LBracket, Num(10), RBracket>>,
              DeepText,
              NoText}

UnitText(text, tags) ==
    <<LBrace, Key("bullet_text"), Str(text), Key("tags"), LBracket>> \o tags
        \o <<RBracket, RBrace>>

\* What the oracle may answer the Tagger.
TaggerReplies ==
    {<<LBrace, Key("tagged_bullets"), LBracket>>
         \o UnitText("b1", <<Str("frontend")>>)
         \o UnitText("b2", <<Str("backend"), Str("frontend")>>)
         \o UnitText("b3", <<Str("frontend")>>)
         \o <<RBracket, RBrace>>,
     <<Junk, Newline, LBrace, Key("tagged_bullets"), LBracket>>
         \o UnitText("b1", <<Str("backend"), Str("golang")>>)
         \o <<RBracket, RBrace>>,
     <<LBrace, Key("tagged_bullets"), LBracket, RBracket, RBrace>>,
     <<LBrace, Key("tagged_bullets"), Str("none found"), RBrace>>,
     <<LBrace, Key("tagged_bullets"), None, RBrace>>,
     <<LBrace, Key("tagged_bullets"), LBracket, Num(10), RBracket, RBrace>>,
     <<LBrace, Key("other"), Num(10), RBrace>>,
     <<LBrace, RBrace>>,
     <<LBracket>> \o UnitText("b1", <<Str("backend")>>) \o <<RBracket>>,
     <<Str("no bullets")>>,
     <<Junk, Junk>>,
     <<LBrace, Key("tagged_bullets"), LBracket>>,
     DeepText,
     NoText}

\* What the oracle may answer the rewrite request.
RewriteReplies ==
    {<<Fence, Latex, Newline, BeginMarker, Newline, Latex, Newline, EndHead, EndTail,
       Newline, Fence>>,
     <<Latex, BeginMarker, Latex, EndHead, EndTail, Newline, Latex>>,
     <<Fence, Latex, Fence, Newline>>,
     NoText}

\* The clipboard: nothing, blanks, a description.
JdTexts == {<<>>, <<Space, Newline>>, <<Space, Junk, Junk, Newline>>}

\* ", ".join(v) works on an iterable of strings.
Joinable(v) ==
    CASE v[1] = "list" -> \A i \in 1..Len(v[2]) : v[2][i][1] = "str"
      [] v[1] = "str"  -> TRUE
      [] v[1] = "obj"  -> TRUE
      [] OTHER         -> FALSE

\* v[:6] works on a list or a string.
Sliceable(v) == v[1] \in {"list", "str"}

ProfileOrDefaults(data) ==
    [raised |-> ~IsDict(data),
     val    |-> IF IsDict(data)
                THEN SetDefault(SetDefault(SetDefault(SetDefault(data,
                         "signal_weights", EmptyDict),
                         "top_5_signals", List(<<>>)),
                         "top_keywords", List(<<>>)),
                         "domain_phrases", List(<<>>))
                ELSE None]

ProfileDefaultsOnFailure(data) ==
    IF ~Truthy(data) THEN ProfileOrDefaults(EmptyDict)
    ELSE ProfileOrDefaults(data)

\* Lines 124-131: what extract_signal_weights makes of the decoded reply.
ProfileOf(data) ==
    IF ~Truthy(data) THEN [raised |-> FALSE, val |-> None]
    ELSE ProfileOrDefaults(data)

\* Lines 123-131 on a reply: json.loads(None) raises a TypeError.
extract_signal_weights(reply) ==
    IF reply = NoText THEN [raised |-> TRUE, val |-> None, warn |-> FALSE]
    ELSE LET r == safe_json_loads(reply)
             p == ProfileOf(r.val)
         IN IF r.raised THEN [raised |-> TRUE, val |-> None, warn |-> FALSE]
            ELSE [raised |-> p.raised, val |-> p.val, warn |-> r.warn]

\* Lines 378-381: the summary main prints raises when a field is no list.
SummaryRaises(signals) ==
    \/ ~Joinable(DictGet(signals, "top_5_signals", List(<<>>)))
    \/ ~Sliceable(DictGet(signals, "top_keywords", List(<<>>)))
    \/ ~Joinable(DictGet(signals, "top_keywords", List(<<>>)))
    \/ /\ Truthy(DictGet(signals, "domain_phrases", None))
       /\ ~Joinable(DictGet(signals, "domain_phrases", List(<<>>)))

\* Lines 222-224: the joins that build the rewrite prompt.
PromptRaises(signals) ==
    \/ ~Joinable(DictGet(signals, "top_5_signals", List(<<>>)))
    \/ ~Joinable(DictGet(signals, "top_keywords", List(<<>>)))
    \/ ~Joinable(DictGet(signals, "domain_phrases", List(<<>>)))

\* Lines 189-195: what tag_resume_bullets makes of the decoded reply.
TaggedOf(data) ==
    IF ~Truthy(data) THEN [raised |-> FALSE, val |-> <<>>]
    ELSE IF ~IsDict(data) THEN [raised |-> TRUE, val |-> <<>>]
    ELSE LET tagged == DictGet(data, "tagged_bullets", List(<<>>)) IN
         IF ~IsList(tagged) THEN [raised |-> FALSE, val |-> <<>>]
         ELSE [raised |-> FALSE, val |-> tagged[2]]

\* Lines 188-195 on a reply.
tag_resume_bullets(reply) ==
    IF reply = NoText THEN [raised |-> TRUE, val |-> <<>>, warn |-> FALSE]
    ELSE LET r == safe_json_loads(reply)
             t == TaggedOf(r.val)
         IN IF r.raised THEN [raised |-> TRUE, val |-> <<>>, warn |-> FALSE]
            ELSE [raised |-> t.raised, val |-> t.val, warn |-> r.warn]

InitMain ==
    /\ pc = "setup"
    /\ raw_text = <<>>
    /\ context_label = ""
    /\ parsed = None
    /\ log = <<>>
    /\ replies = <<>>
    /\ Idle

\* Lines 15-22: without GEMINI_API_KEY the program exits at once.
Setup ==
    /\ pc = "setup"
    /\ \E api_key \in BOOLEAN :
         IF api_key THEN pc' = "paste" /\ trace' = trace
         ELSE pc' = "exit" /\ trace' = Append(trace, "exit_no_key")
    /\ UNCHANGED <<raw_text, context_label, parsed, log, jd, jd_signals,
                   tagged_bullets, scored_bullets, response_text, clean_text,
                   clean_again, oracle_calls, inflight, file_reads, prompts, replies>>

\* Lines 358-369: the clipboard is read; blank text ends the run.
Paste ==
    /\ pc = "paste"
    /\ \E text \in JdTexts :
         /\ jd' = text
         /\ IF Strip(text) = <<>>
            THEN pc' = "exit" /\ trace' = Append(trace, "exit_clipboard")
            ELSE pc' = "profiler" /\ trace' = trace
    /\ UNCHANGED <<raw_text, context_label, parsed, log, jd_signals,
                   tagged_bullets, scored_bullets, response_text, clean_text,
                   clean_again, oracle_calls, inflight, file_reads, prompts, replies>>

\* Lines 115-121: extract_signal_weights issues its generate_content call.
ProfilerCall ==
    /\ pc = "profiler"
    /\ oracle_calls' = oracle_calls + 1
    /\ inflight' = inflight + 1
    /\ trace' = Append(trace, "profiler_call")
    /\ pc' = "profiler_wait"
    /\ UNCHANGED <<raw_text, context_label, parsed, log, jd, jd_signals,
                   tagged_bullets, scored_bullets, response_text, clean_text,
                   clean_again, file_reads, prompts, replies>>

\* Lines 123-131 and 372-381: the reply is decoded, main exits without a
\* profile and prints the summary otherwise.
ProfilerReturn ==
    /\ pc = "profiler_wait"
    /\ \E reply \in ProfilerReplies :
         LET r == extract_signal_weights(reply) IN
         /\ replies' = Append(replies, reply)
         /\ log' = IF r.warn THEN Append(log, "JD signals") ELSE log
         /\ jd_signals' = IF r.raised THEN jd_signals ELSE r.val
         /\ IF r.raised THEN pc' = "crash" /\ trace' = trace
            ELSE IF ~Truthy(r.val)
            THEN pc' = "exit" /\ trace' = Append(trace, "exit_signals")
            ELSE IF SummaryRaises(r.val) THEN pc' = "crash" /\ trace' = trace
            ELSE pc' = "sleep1" /\ trace' = trace
    /\ inflight' = inflight - 1
    /\ UNCHANGED <<raw_text, context_label, parsed, jd, tagged_bullets,
                   scored_bullets, response_text, clean_text, clean_again,
                   oracle_calls, file_reads, prompts>>

\* Lines 383-384: time.sleep(10)
Sleep1 ==
    /\ pc = "sleep1"
    /\ trace' = Append(trace, "delay")
    /\ pc' = "read_resume"
    /\ UNCHANGED <<raw_text, context_label, parsed, log, jd, jd_signals,
                   tagged_bullets, scored_bullets, response_text, clean_text,
                   clean_again, oracle_calls, inflight, file_reads, prompts, replies>>

ReadResumeNoExit ==
    /\ pc = "read_resume"
    /\ file_reads' = file_reads + 1
    /\ \E found \in BOOLEAN :
         IF found
         THEN pc' = "tagger" /\ trace' = Append(trace, "read_resume")
         ELSE pc' = "tagger" /\ trace' = trace \o <<"read_resume", "exit_no_file">>
    /\ UNCHANGED <<raw_text, context_label, parsed, log, jd, jd_signals,
                   tagged_bullets, scored_bullets, response_text, clean_text,
                   clean_again, oracle_calls, inflight, prompts, replies>>

\* Lines 387 and 45-51: resume.tex is opened; a missing file ends the run.
ReadResume ==
    /\ pc = "read_resume"
    /\ file_reads' = file_reads + 1
    /\ \E found \in BOOLEAN :
         IF found
         THEN pc' = "tagger" /\ trace' = Append(trace, "read_resume")
         ELSE pc' = "exit" /\ trace' = trace \o <<"read_resume", "exit_no_file">>
    /\ UNCHANGED <<raw_text, context_label, parsed, log, jd, jd_signals,
                   tagged_bullets, scored_bullets, response_text, clean_text,
                   clean_again, oracle_calls, inflight, prompts, replies>>

\* Lines 180-186: tag_resume_bullets issues its generate_content call.
TaggerCall ==
    /\ pc = "tagger"
    /\ oracle_calls' = oracle_calls + 1
    /\ inflight' = inflight + 1
    /\ trace' = Append(trace, "tagger_call")
    /\ pc' = "tagger_wait"
    /\ UNCHANGED <<raw_text, context_label, parsed, log, jd, jd_signals,
                   tagged_bullets, scored_bullets, response_text, clean_text,
                   clean_again, file_reads, prompts, replies>>

\* Lines 188-195 and 388-391: the reply is decoded; no bullets is a warning.
TaggerReturn ==
    /\ pc = "tagger_wait"
    /\ \E reply \in TaggerReplies :
         LET r == tag_resume_bullets(reply)
             w == IF r.warn THEN Append(log, "bullet tagging") ELSE log
         IN
         /\ replies' = Append(replies, reply)
         /\ tagged_bullets' = r.val
         /\ log' = IF ~r.raised /\ r.val = <<>> THEN Append(w, "No tagged bullets returned")
                   ELSE w
         /\ pc' = IF r.raised THEN "crash" ELSE "sleep2"
    /\ inflight' = inflight - 1
    /\ UNCHANGED <<raw_text, context_label, parsed, jd, jd_signals,
                   scored_bullets, response_text, clean_text, clean_again, trace,
                   oracle_calls, file_reads, prompts>>

Sleep2OnlyWithBullets ==
    /\ pc = "sleep2"
    /\ trace' = IF tagged_bullets = <<>> THEN trace ELSE Append(trace, "delay")
    /\ pc' = "score"
    /\ UNCHANGED <<raw_text, context_label, parsed, log, jd, jd_signals,
                   tagged_bullets, scored_bullets, response_text, clean_text,
                   clean_again, oracle_calls, inflight, file_reads, prompts, replies>>

\* Lines 393-394: time.sleep(10)
Sleep2 ==
    /\ pc = "sleep2"
    /\ trace' = Append(trace, "delay")
    /\ pc' = "score"
    /\ UNCHANGED <<raw_text, context_label, parsed, log, jd, jd_signals,
                   tagged_bullets, scored_bullets, response_text, clean_text,
                   clean_again, oracle_calls, inflight, file_reads, prompts, replies>>

\* Lines 205-220: the scoring loop and the sort; a pass that raises ends the
\* run with a traceback.
Scorer ==
    /\ pc = "score"
    /\ LET r == ScoreLoop(jd_signals, tagged_bullets) IN
         IF r.ok
         THEN /\ scored_bullets' = SortDescending(r.val)
              /\ trace' = Append(trace, "scorer")
              /\ pc' = "rewrite"
         ELSE /\ pc' = "crash"
              /\ UNCHANGED <<scored_bullets, trace>>
    /\ UNCHANGED <<raw_text, context_label, parsed, log, jd, jd_signals,
                   tagged_bullets, response_text, clean_text, clean_again,
                   oracle_calls, inflight, file_reads, prompts, replies>>

\* Lines 222-302: the prompt is built and the rewrite call is issued.
RewriteCall ==
    /\ pc = "rewrite"
    /\ IF PromptRaises(jd_signals)
       THEN pc' = "crash" /\ UNCHANGED <<oracle_calls, inflight, trace>>
       ELSE /\ oracle_calls' = oracle_calls + 1
            /\ inflight' = inflight + 1
            /\ trace' = Append(trace, "rewrite_call")
            /\ pc' = "rewrite_wait"
    /\ UNCHANGED <<raw_text, context_label, parsed, log, jd, jd_signals,
                   tagged_bullets, scored_bullets, response_text, clean_text,
                   clean_again, file_reads, prompts, replies>>

\* Lines 304-311 and 397-401: response.text or "", the extraction, the echo.
RewriteReturn ==
    /\ pc = "rewrite_wait"
    /\ \E reply \in RewriteReplies :
         /\ replies' = Append(replies, reply)
         /\ response_text' = IF reply = NoText THEN <<>> ELSE reply
         /\ clean_text' = Extraction(IF reply = NoText THEN <<>> ELSE reply)
    /\ inflight' = inflight - 1
    /\ trace' = Append(trace, "extraction")
    /\ pc' = "confirm"
    /\ UNCHANGED <<raw_text, context_label, parsed, log, jd, jd_signals,
                   tagged_bullets, scored_bullets, clean_again, oracle_calls,
                   file_reads, prompts>>

\* Lines 404-407 and 318-347: "Y" compiles and ends the loop.
ConfirmYes ==
    /\ pc = "confirm"
    /\ prompts' = prompts + 1
    /\ trace' = Append(trace, "compile")
    /\ pc' = "done"
    /\ UNCHANGED <<raw_text, context_label, parsed, log, jd, jd_signals,
                   tagged_bullets, scored_bullets, response_text, clean_text,
                   clean_again, oracle_calls, inflight, file_reads, replies>>

\* Lines 408-410: "N" ends the loop without compiling.
ConfirmNo ==
    /\ pc = "confirm"
    /\ prompts' = prompts + 1
    /\ pc' = "done"
    /\ UNCHANGED <<raw_text, context_label, parsed, log, jd, jd_signals,
                   tagged_bullets, scored_bullets, response_text, clean_text,
                   clean_again, trace, oracle_calls, inflight, file_reads, replies>>

\* Lines 411-412: any other answer asks again.
ConfirmOther ==
    /\ pc = "confirm"
    /\ prompts < MaxPrompts
    /\ prompts' = prompts + 1
    /\ UNCHANGED <<pc, raw_text, context_label, parsed, log, jd, jd_signals,
                   tagged_bullets, scored_bullets, response_text, clean_text,
                   clean_again, trace, oracle_calls, inflight, file_reads, replies>>

NextMain ==
    \/ Setup
    \/ Paste
    \/ ProfilerCall
    \/ ProfilerReturn
    \/ Sleep1
    \/ ReadResume
    \/ TaggerCall
    \/ TaggerReturn
    \/ Sleep2
    \/ Scorer
    \/ RewriteCall
    \/ RewriteReturn
    \/ ConfirmYes
    \/ ConfirmNo
    \/ ConfirmOther

SpecMain == InitMain /\ [][NextMain]_vars

-----------------------------------------------------------------------------
(* Properties of main() *)

CallEvents == {"profiler_call", "tagger_call", "rewrite_call"}

ExitEvents == {"exit_no_key", "exit_clipboard", "exit_signals", "exit_no_file"}

StageEvents == CallEvents \cup {"delay", "scorer", "extraction", "compile"}

\* The stages of a run, without its file read and its exit message.
Stages == SelectSeq(trace, LAMBDA e : e \in StageEvents)

FullRun ==
    <<"profiler_call", "delay", "tagger_call", "delay", "scorer", "rewrite_call",
      "extraction">>

IsPrefix(a, b) == Len(a) <= Len(b) /\ a = SubSeq(b, 1, Len(a))

Occurs(e) == \E i \in 1..Len(trace) : trace[i] = e

\* The Profiler's and the Tagger's reply, once received.
ProfilerReplied == Len(replies) >= 1

TaggerReplied == Len(replies) >= 2

\* The reply did not decode: safe_json_loads found no JSON in it.
Rejected(reply) == reply # NoText /\ safe_json_loads(reply).warn

\* The reply did not decode: no JSON in it, or the decoder gave up on it.
DecodeFails(reply) ==
    reply # NoText /\ (safe_json_loads(reply).warn \/ safe_json_loads(reply).raised)

\* C4: blank clipboard text ends the run with no oracle call made; a
\* Profiler reply that does not decode yields no profile and ends the run
\* after exactly one oracle call, with no Tagger call, Scorer, rewrite call
\* or compile; nothing follows a fatal exit.
C4_NoCallAfterFatal ==
    /\ Strip(jd) = <<>> =>
           /\ pc \in {"setup", "paste", "exit"}
           /\ oracle_calls = 0
           /\ inflight = 0
    /\ (ProfilerReplied /\ DecodeFails(replies[1])) =>
           /\ pc \in {"exit", "crash"}
           /\ jd_signals = None
           /\ oracle_calls = 1
           /\ inflight = 0
           /\ Stages = <<"profiler_call">>
           /\ file_reads = 0
    /\ (ProfilerReplied /\ Rejected(replies[1])) =>
           /\ pc = "exit"
           /\ trace = <<"profiler_call", "exit_signals">>
    /\ \A i \in 1..Len(trace) :
           trace[i] \in ExitEvents => i = Len(trace) /\ pc = "exit"

\* The Profiler's reply did not decode and the run ended after that one call.
C4_Witness ==
    /\ pc = "exit"
    /\ replies = <<<<Junk, Junk>>>>
    /\ log = <<"JD signals">>
    /\ oracle_calls = 1

\* C5: the stages of a run occur in the order Profiler call, delay, Tagger
\* call, delay, Scorer, rewrite call, extraction, optional compile; a run
\* that completes has made each of the three oracle calls exactly once and
\* both delays; at most one oracle call is outstanding at any time.
C5_StageOrder ==
    /\ inflight \in {0, 1}
    /\ inflight = 1 <=> pc \in {"profiler_wait", "tagger_wait", "rewrite_wait"}
    /\ IsPrefix(Stages, FullRun \o <<"compile">>)
    /\ oracle_calls = Len(SelectSeq(trace, LAMBDA e : e \in CallEvents))
    /\ pc = "done" =>
           /\ Stages \in {FullRun, FullRun \o <<"compile">>}
           /\ oracle_calls = 3

\* A run whose Tagger reply did not decode completed with a compile: both
\* delays and all three calls are in its trace.
C5_Witness ==
    /\ pc = "done"
    /\ tagged_bullets = <<>>
    /\ TaggerReplied
    /\ DecodeFails(replies[2])
    /\ Stages = FullRun \o <<"compile">>

\* The Tagger's reply is malformed: it does not decode, or decodes to
\* something that is no record, or its tagged_bullets is no list.
Malformed(reply) ==
    /\ reply # NoText
    /\ \/ safe_json_loads(reply).warn
       \/ safe_json_loads(reply).raised
       \/ ~IsDict(safe_json_loads(reply).val)
       \/ ~IsList(DictGet(safe_json_loads(reply).val, "tagged_bullets", List(<<>>)))

\* C3: on a Tagger reply that does not decode or decodes to the wrong shape,
\* tag_resume_bullets returns an empty sequence without raising and the run
\* goes on to the Scorer and the rewrite call.
C3_TaggerDegrades ==
    (TaggerReplied /\ Malformed(replies[2])) =>
        /\ tagged_bullets = <<>>
        /\ ~(pc = "crash" /\ trace[Len(trace)] = "tagger_call")

\* C7: on a Profiler reply that decodes to a record, the profile has all
\* four keys, a missing field as an empty container and a present field
\* unchanged, whichever fields are missing; no profile only when decoding
\* failed.
C7_ProfileDefaulting ==
    (/\ ProfilerReplied
     /\ replies[1] # NoText
     /\ ~safe_json_loads(replies[1]).raised
     /\ IsDict(safe_json_loads(replies[1]).val)) =>
        LET decoded == safe_json_loads(replies[1]).val IN
        /\ IsDict(jd_signals)
        /\ \A i \in 1..Len(ProfileFields) :
               /\ HasKey(jd_signals, ProfileFields[i])
               /\ DictGet(jd_signals, ProfileFields[i], None) =
                      DictGet(decoded, ProfileFields[i],
                              IF i = 1 THEN EmptyDict ELSE List(<<>>))

\* C9: every tag of every scored unit is one of the 12 cluster identifiers.
C9_TaxonomyClosure ==
    \A k \in 1..Len(scored_bullets) :
        \A i \in 1..Len(Items(scored_bullets[k].tags).val) :
            LET tag == Items(scored_bullets[k].tags).val[i] IN
            tag[1] = "str" /\ tag[2] \in Taxonomy

\* C10 as stated: resume.tex is read once, before the first oracle call, and
\* when it is missing the run ends with no oracle call made.
C10_ReadAtStartup_Original ==
    /\ file_reads <= 1
    /\ \A i \in 1..Len(trace) :
           trace[i] = "read_resume" => \A j \in 1..(i - 1) : trace[j] \notin CallEvents
    /\ Occurs("exit_no_file") => oracle_calls = 0

\* C10 amended: resume.tex is read at most once per run, and exactly once in
\* every run that reaches the Tagger; the read comes after the Profiler's
\* oracle call and the first delay and before the Tagger's call; when the
\* file is missing the run ends with the message after that one oracle
\* call, and no further call is made.
C10_ReadBeforeTagger ==
    /\ file_reads <= 1
    /\ file_reads = 1 <=> Occurs("read_resume")
    /\ Occurs("read_resume") =>
           IsPrefix(<<"profiler_call", "delay", "read_resume">>, trace)
    /\ Occurs("tagger_call") => file_reads = 1
    /\ pc = "done" => file_reads = 1
    /\ Occurs("exit_no_file") =>
           /\ pc = "exit"
           /\ oracle_calls = 1
           /\ inflight = 0
           /\ trace = <<"profiler_call", "delay", "read_resume", "exit_no_file">>

\* resume.tex was missing: the run ended at the read, one oracle call made.
C10_Witness ==
    /\ pc = "exit"
    /\ file_reads = 1
    /\ Occurs("exit_no_file")
    /\ oracle_calls = 1

====
